---- MODULE Spec2Model ----
(***************************************************************************)
(* ImgGo how-to-guide: the reusable HTTP client                            *)
(* (examples/common/imggo_client.py).                                      *)
(*                                                                         *)
(* Spec      the construction of an ImgGoClient and one call of it         *)
(*           (process_image, process_image_url, wait_for_job,              *)
(*           get_job_status), or one call of upload_with_retry or          *)
(*           poll_with_retry of error-handling.py, against an arbitrary    *)
(*           server.                                                       *)
(* SpecLive  Spec with max_retries up to MaxRetriesLive and the fairness    *)
(*           of a running program, for the termination properties.         *)
(* SpecBatch one call of process_batch of async-batch.py: the upload tasks *)
(*           and then the poll tasks of the batch, interleaved.            *)
(* SpecWebhook  the requests served by handle_webhook of                   *)
(*           webhook-example.py.                                           *)
(* SpecKeys  two process_image calls at the same instant, as far as the    *)
(*           generated Idempotency-Key.                                    *)
(*                                                                         *)
(* Durations are integers in units of half a second (0.5 s == 1).          *)
(***************************************************************************)
EXTENDS Integers, Sequences, FiniteSets, TLC

(***************************************************************************)
(* Bounds of the model                                                     *)
(***************************************************************************)
MaxRetriesArg == 3       \* max_retries is drawn from 0..MaxRetriesArg
MaxRetriesLive == 2      \* the same under SpecLive: 0..MaxRetriesLive
MaxAttemptsArg == 3      \* max_attempts of a direct wait_for_job call: 0..MaxAttemptsArg
MaxPathLen == 3          \* image paths have 1..MaxPathLen characters
MaxNow == 3              \* time.time() is drawn from 0..MaxNow half-seconds
MaxBatch == 2            \* longest image_paths list given to process_batch
MaxRequests == 2         \* webhook requests served in one run
DefaultMaxAttempts == 3  \* iterations of wait_for_job when max_attempts is left at its
                         \* default (60 in the source, scaled down here)

(***************************************************************************)
(* Program constants                                                       *)
(***************************************************************************)
TicksPerSecond == 2          \* one second in model time units
DefaultWaitSeconds == 2      \* wait_for_job(wait_seconds=2)

VARIABLES
    max_retries,      \* self.max_retries
    pc,               \* position of the call in the client's code
    op,               \* the public method that was called
    poll,             \* argument poll of process_image / process_image_url
    idem_key,         \* headers["Idempotency-Key"] of the submit
    method,           \* _make_request: method
    target,           \* _make_request: endpoint ("ingest" or the job id of /jobs/{id})
    caller,           \* who called _make_request: "submit" or "status"
    attempt,          \* _make_request: loop variable attempt
    last_exception,   \* _make_request: last_exception
    log,              \* requests.request calls and time.sleep calls of the current _make_request
    response,         \* response.json()["data"] of the last successful _make_request
    job_id,           \* job_id local of process_image* / argument of wait_for_job
    max_attempts,     \* wait_for_job: max_attempts
    poll_attempt,     \* wait_for_job: loop variable attempt
    polls,            \* number of get_job_status calls made so far
    polledJobs,       \* job ids that get_job_status was called with
    pollSleeps,       \* number of time.sleep(wait_seconds) calls of wait_for_job
    progress_callback,\* wait_for_job: TRUE when a progress_callback was passed
    cbCalls,          \* number of progress_callback invocations
    cbLast,           \* arguments of the last progress_callback invocation
    outcome,          \* what the call returned or raised
    api_key,          \* self.api_key
    wait_seconds,     \* wait_for_job: wait_seconds
    pollSlept,        \* time spent in time.sleep(wait_seconds), in half-seconds
    gets,             \* number of GET requests made since the call began
    f_pos,            \* process_image: position of the open file f
    EH_API_KEY,       \* error-handling.py: IMGGO_API_KEY
    uw_max_retries,   \* upload_with_retry: max_retries
    uw_attempt,       \* upload_with_retry: loop variable attempt
    uw_posts,         \* upload_with_retry: number of requests.post calls
    uw_jobs,          \* upload_with_retry: number of POSTs answered with a job id
    uw_keys,          \* upload_with_retry: Idempotency-Key values sent
    uw_args,          \* upload_with_retry: <<image_path, pattern_id>>
    uw_sleep,         \* upload_with_retry: duration of the last time.sleep
    pw_job,           \* poll_with_retry: job_id
    pw_max_attempts,  \* poll_with_retry: max_attempts
    pw_attempt,       \* poll_with_retry: loop variable attempt
    pw_gets,          \* poll_with_retry: number of requests.get calls
    pw_last,          \* poll_with_retry: what the last requests.get produced
    pw_sleep,         \* poll_with_retry: duration of the last time.sleep
    B_API_KEY,        \* async-batch.py: IMGGO_API_KEY
    image_paths,      \* process_batch: image_paths
    b_pc,             \* process_batch: position
    upload_results,   \* process_batch: upload_results, an entry per finished upload task
    successful_uploads, \* process_batch: successful_uploads
    poll_attempts,    \* poll_job_async: loop variable attempt of each poll task
    final_results,    \* process_batch: final_results, an entry per finished poll task
    b_outcome,        \* process_batch: what the call returned or raised
    WEBHOOK_SECRET,   \* webhook-example.py: WEBHOOK_SECRET
    h_requests,       \* handle_webhook: number of requests served
    h_body,           \* handle_webhook: request.data of the last request
    h_signature,      \* handle_webhook: X-ImgGo-Signature of the last request
    h_status,         \* handle_webhook: status code of the last answer
    h_processed,      \* handle_webhook: the event handling done for the last request
    kPaths,           \* SpecKeys: the two image paths
    kNow,             \* SpecKeys: time.time() of the common instant
    kKeys             \* SpecKeys: the keys generated so far (one per call)

clientVars == <<max_retries, pc, op, poll, idem_key, method, target, caller, attempt,
                last_exception, log, response, job_id, max_attempts, poll_attempt,
                polls, polledJobs, pollSleeps, progress_callback, cbCalls, cbLast,
                outcome, api_key, wait_seconds, pollSlept, gets, f_pos>>
keyVars == <<kPaths, kNow, kKeys>>
waitVars == <<api_key, wait_seconds, pollSlept>>
ioVars == <<gets, f_pos>>
ehVars == <<EH_API_KEY, uw_max_retries, uw_attempt, uw_posts, uw_jobs, uw_keys, uw_sleep,
            uw_args, pw_job, pw_max_attempts, pw_attempt, pw_gets, pw_last, pw_sleep>>
batchVars == <<B_API_KEY, image_paths, b_pc, upload_results, successful_uploads,
               poll_attempts, final_results, b_outcome>>
hookVars == <<WEBHOOK_SECRET, h_requests, h_body, h_signature, h_status, h_processed>>
extVars == <<ehVars, batchVars, hookVars>>
\* the variables of ImgGoClient other than pc, op and outcome
clientRest == <<max_retries, poll, idem_key, method, target, caller, attempt,
                last_exception, log, response, job_id, max_attempts, poll_attempt,
                polls, polledJobs, pollSleeps, progress_callback, cbCalls, cbLast,
                api_key, wait_seconds, pollSlept, gets, f_pos>>
cbVars == <<progress_callback, cbCalls, cbLast>>
vars == <<max_retries, pc, op, poll, idem_key, method, target, caller, attempt,
          last_exception, log, response, job_id, max_attempts, poll_attempt,
          polls, polledJobs, pollSleeps, progress_callback, cbCalls, cbLast, outcome,
          api_key, wait_seconds, pollSlept, gets, f_pos, kPaths, kNow, kKeys,
          EH_API_KEY, uw_max_retries, uw_attempt, uw_posts, uw_jobs, uw_keys, uw_sleep,
          uw_args, pw_job, pw_max_attempts, pw_attempt, pw_gets, pw_last, pw_sleep,
          B_API_KEY, image_paths, b_pc, upload_results, successful_uploads,
          poll_attempts, final_results, b_outcome,
          WEBHOOK_SECRET, h_requests, h_body, h_signature, h_status, h_processed>>

(***************************************************************************)
(* Python values                                                           *)
(***************************************************************************)
PyNone == "None"
\* payloads a job snapshot can carry in "manifest" / "result"
EmptyDict == "{}"
EmptyStr == "''"
ManifestA == "{total:42}"
ResultA == "{legacy:1}"
Payloads == {EmptyDict, EmptyStr, ManifestA, ResultA}
\* Python truthiness of a payload
Truthy(v) == v \notin {PyNone, EmptyDict, EmptyStr}
\* a or b
PyOr(a, b) == IF Truthy(a) THEN a ELSE b

JobIds == {"J1", "J2"}
NoJob == "-"


(***************************************************************************)
(* HTTP: what requests.request can produce for one attempt                 *)
(***************************************************************************)
Absent == "<absent>"     \* the key is missing from the JSON object
NoData == [job_id |-> NoJob, status |-> "-", manifest |-> Absent, result |-> Absent,
           error |-> Absent]

NonTerminalStatuses == {"queued", "processing"}
SuccessStatuses == {"completed", "succeeded"}

\* {"data": {"job_id": ...}} of POST /patterns/{id}/ingest
SubmitData == {[NoData EXCEPT !.job_id = j] : j \in JobIds}
\* {"data": {"status": ..., "manifest"|"result": ..., "error": ...}} of GET /jobs/{id}
StatusData ==
    {[NoData EXCEPT !.status = s] : s \in NonTerminalStatuses}
    \cup {[NoData EXCEPT !.status = s, !.manifest = m, !.result = r] :
             s \in SuccessStatuses, m \in Payloads \cup {Absent}, r \in {ResultA, Absent}}
    \cup {[NoData EXCEPT !.status = "failed", !.error = e] : e \in {"boom", Absent}}

ClientErrorCodes == {400, 404}
ServerErrorCodes == {503}
RetryAfterValues == {3}            \* seconds announced by Retry-After
NoRetryAfter == -1                 \* the header is missing

OkResponses(m) ==
    {[kind |-> "ok", code |-> 200, retry_after |-> NoRetryAfter, data |-> d] :
        d \in IF m = "POST" THEN SubmitData ELSE StatusData}
ErrorResponses ==
    {[kind |-> "http", code |-> c, retry_after |-> NoRetryAfter, data |-> NoData] :
        c \in ClientErrorCodes \cup ServerErrorCodes \cup {429}}
    \cup {[kind |-> "http", code |-> 429, retry_after |-> n, data |-> NoData] :
        n \in RetryAfterValues}
    \cup {[kind |-> k, code |-> 0, retry_after |-> NoRetryAfter, data |-> NoData] :
        k \in {"timeout", "conn"}}
Responses(m) == OkResponses(m) \cup ErrorResponses
NoResponse == [kind |-> "-", code |-> 0, retry_after |-> NoRetryAfter, data |-> NoData]

(***************************************************************************)
(* Exceptions                                                              *)
(***************************************************************************)
NoException == [kind |-> "None", code |-> 0, retry_after |-> NoRetryAfter, at |-> -1,
                msg |-> ""]
\* the requests.RequestException that requests.request / raise_for_status raise for
\* response r on attempt a
RequestException(r, a) ==
    [kind |-> CASE r.kind = "http" -> "HTTPError"
                [] r.kind = "timeout" -> "Timeout"
                [] OTHER -> "ConnectionError",
     code |-> r.code, retry_after |-> r.retry_after, at |-> a, msg |-> ""]
\* raise None
TypeError == [NoException EXCEPT !.kind = "TypeError"]
RuntimeError(m) == [NoException EXCEPT !.kind = "RuntimeError", !.msg = m]
\* mutant of TimeoutError: the exhausted loop raises the job-failure type
TimeoutError_Mut == [NoException EXCEPT !.kind = "RuntimeError", !.msg = "timeout"]

\* raise TimeoutError(...)
TimeoutError == [NoException EXCEPT !.kind = "TimeoutError"]
\* whatever a failing progress_callback raises
CallbackError == [NoException EXCEPT !.kind = "CallbackError"]

NoValue == [type |-> "-", v |-> "-"]
NoOutcome == [kind |-> "none", value |-> NoValue, exc |-> NoException]
Return(val) == [kind |-> "return", value |-> val, exc |-> NoException]
Raise(e) == [kind |-> "raise", value |-> NoValue, exc |-> e]

(***************************************************************************)
(* _make_request                                                           *)
(***************************************************************************)
\* mutant of InRange: one iteration too many
InRange_Mut(a, n) == a <= n

\* "for attempt in range(n)": another iteration follows when the index is a
InRange(a, n) == a < n

\* mutant of IsClientError: the lower bound is exclusive, so a 400 is retried
IsClientError_Mut(e) ==
    /\ e.kind = "HTTPError"
    /\ 400 < e.code /\ e.code < 500
    /\ e.code # 429

\* e.response is not None and 400 <= status_code < 500 and status_code != 429
IsClientError(e) ==
    /\ e.kind = "HTTPError"
    /\ 400 <= e.code /\ e.code < 500
    /\ e.code # 429

\* attempt < self.max_retries - 1
SleepsAfter(a, n) == a < n - 1

\* mutant of WaitTime: the factor 0.5 is forgotten (wait_time = 2 ** attempt)
WaitTime_Mut(a) == 2 * (2 ^ a)

\* wait_time = (2 ** attempt) * 0.5, in half-seconds
WaitTime(a) == 2 ^ a

\* the content of the image file opened by process_image
ImageBytes == <<"byte1", "byte2">>
\* the JSON payload of process_image_url
UrlPayload == <<"image_url">>

\* f.read() of a file with this content, read from position pos
FileRead(content, pos) == SubSeq(content, pos + 1, Len(content))

\* the request passes files={'image': (filename, f, mime_type)}
SendsFile == op = "process_image" /\ method = "POST"

\* what requests.request sends as the body of the current attempt: the multipart
\* encoding reads the file object from its current position to its end
RequestBody ==
    IF SendsFile THEN FileRead(ImageBytes, f_pos)
    ELSE IF method = "POST" THEN UrlPayload
    ELSE <<>>

\* mutant of ReqEvent: the key is made anew for each attempt
ReqEvent_Mut(r) == [ev |-> "req", resp |-> r, d |-> 0, method |-> method, target |-> target,
                    key |-> IF method = "POST"
                            THEN idem_key \o <<"-", ToString(attempt)>> ELSE <<"-">>,
                    body |-> RequestBody]

\* the requests.request call made for the current attempt, answered with r
ReqEvent(r) == [ev |-> "req", resp |-> r, d |-> 0, method |-> method, target |-> target,
                key |-> IF method = "POST" THEN idem_key ELSE <<"-">>,
                body |-> RequestBody]
SleepEvent(t) == [ev |-> "sleep", resp |-> NoResponse, d |-> t, method |-> "-",
                  target |-> "-", key |-> <<"-">>, body |-> <<>>]

\* where a successful _make_request returns to
ReturnPoint(c) == CASE c = "submit" -> "submitted"
                    [] c = "wait" -> "polled"
                    [] OTHER -> "status_done"

\* the entry of _make_request(method, endpoint)
EnterRequest(m, t, c) ==
    /\ method' = m
    /\ target' = t
    /\ caller' = c
    /\ attempt' = 0
    /\ last_exception' = NoException
    /\ log' = <<>>
    /\ pc' = "request"

\* one iteration of "for attempt in range(self.max_retries)"
MakeRequestAttempt ==
    /\ pc = "request"
    /\ InRange(attempt, max_retries)
    /\ gets' = IF method = "GET" THEN gets + 1 ELSE gets
    /\ f_pos' = IF SendsFile THEN Len(ImageBytes) ELSE f_pos
    /\ \E r \in Responses(method) :
          IF r.kind = "ok"
          THEN /\ log' = Append(log, ReqEvent(r))
               /\ response' = r.data
               /\ pc' = ReturnPoint(caller)
               /\ UNCHANGED <<attempt, last_exception, outcome>>
          ELSE LET e == RequestException(r, attempt) IN
               /\ last_exception' = e
               /\ UNCHANGED response
               /\ IF IsClientError(e)
                  THEN /\ log' = Append(log, ReqEvent(r))
                       /\ outcome' = Raise(e)
                       /\ pc' = "done"
                       /\ UNCHANGED attempt
                  ELSE /\ log' = IF SleepsAfter(attempt, max_retries)
                                 THEN log \o <<ReqEvent(r), SleepEvent(WaitTime(attempt))>>
                                 ELSE Append(log, ReqEvent(r))
                       /\ attempt' = attempt + 1
                       /\ UNCHANGED <<outcome, pc>>
    /\ UNCHANGED <<max_retries, op, poll, idem_key, method, target, caller, job_id,
                   max_attempts, poll_attempt, polls, polledJobs, pollSleeps>>
    /\ UNCHANGED <<cbVars, extVars, keyVars, waitVars>>

\* "raise last_exception" after the loop
RaiseLastException ==
    /\ pc = "request"
    /\ ~InRange(attempt, max_retries)
    /\ outcome' = Raise(IF last_exception = NoException THEN TypeError ELSE last_exception)
    /\ pc' = "done"
    /\ UNCHANGED <<max_retries, op, poll, idem_key, method, target, caller, attempt,
                   last_exception, log, response, job_id, max_attempts, poll_attempt,
                   polls, polledJobs, pollSleeps>>
    /\ UNCHANGED <<cbVars, ioVars, extVars, keyVars, waitVars>>


(***************************************************************************)
(* Idempotency keys (pathlib.Path, time.time, f-strings)                   *)
(***************************************************************************)
PathChars == {"a", "b", ".", "/"}
PathStrings == UNION {[1..n -> PathChars] : n \in 1..MaxPathLen}

\* index of the last "/" of p, 0 when there is none
LastSlash(p) ==
    LET S == {i \in 1..Len(p) : p[i] = "/"}
    IN IF S = {} THEN 0 ELSE CHOOSE i \in S : \A j \in S : j <= i

\* the text after the last "/"
RawName(p) == SubSeq(p, LastSlash(p) + 1, Len(p))

\* a string that can name a regular file
IsFilePath(p) ==
    /\ p # <<>>
    /\ RawName(p) \notin {<<>>, <<".">>, <<".", ".">>}
FilePaths == {p \in PathStrings : IsFilePath(p)}

\* Path(p).name: the last component, "" and "." components being dropped
RECURSIVE PathName(_)
PathName(p) ==
    IF p = <<>> THEN <<>>
    ELSE IF RawName(p) \in {<<>>, <<".">>}
         THEN PathName(SubSeq(p, 1, LastSlash(p) - 1))
         ELSE RawName(p)

\* name.rfind('.') + 1: index of the last ".", 0 when there is none
LastDot(name) ==
    LET S == {i \in 1..Len(name) : name[i] = "."}
    IN IF S = {} THEN 0 ELSE CHOOSE i \in S : \A j \in S : j <= i

\* Path(p).stem: the name without its suffix; a leading or trailing dot starts no suffix
PathStem(p) ==
    LET name == PathName(p)
        i == LastDot(name)
    IN IF 1 < i /\ i < Len(name) THEN SubSeq(name, 1, i - 1) ELSE name

\* int(time.time())
IntTime(now) == now \div TicksPerSecond

\* process_image: the key sent; <<>> is a missing (None or "") idempotency_key argument
ImageIdempotencyKey(arg, image_path, now) ==
    IF arg = <<>>
    THEN PathStem(image_path) \o <<"-", ToString(IntTime(now))>>
    ELSE arg

\* process_image_url: h is hash(image_url)
UrlIdempotencyKey(arg, h, now) ==
    IF arg = <<>>
    THEN <<"url-", ToString(h), "-", ToString(IntTime(now))>>
    ELSE arg

KeyArgs == {<<>>, <<"k">>}
HashValues == {7}
ClientPaths == {<<"a">>}
NoKey == <<"-">>

(***************************************************************************)
(* The public methods                                                      *)
(***************************************************************************)
\* values of the api_key argument and of the IMGGO_API_KEY environment variable
ApiKeyValues == {PyNone, EmptyStr, "sk"}

\* mutant of HasApiKey: only None counts as a missing key
HasApiKey_Mut(k) == k # PyNone

\* not (not self.api_key)
HasApiKey(k) == Truthy(k)

\* raise ValueError(...)
ValueError == [NoException EXCEPT !.kind = "ValueError"]

\* ImgGoClient.__init__(api_key) with os.getenv("IMGGO_API_KEY") == env
Construct ==
    /\ pc = "new"
    /\ \E arg \in ApiKeyValues, env \in ApiKeyValues :
          /\ api_key' = PyOr(arg, env)
          /\ IF HasApiKey(PyOr(arg, env))
             THEN /\ pc' = "idle"
                  /\ UNCHANGED outcome
             ELSE /\ outcome' = Raise(ValueError)
                  /\ pc' = "done"
    /\ UNCHANGED <<max_retries, op, poll, idem_key, method, target, caller, attempt,
                   last_exception, log, response, job_id, max_attempts, poll_attempt,
                   polls, polledJobs, pollSleeps>>
    /\ UNCHANGED <<cbVars, ioVars, extVars, keyVars, wait_seconds, pollSlept>>

\* process_image up to the first HTTP attempt
ProcessImage ==
    /\ pc = "idle"
    /\ \E image_path \in ClientPaths, arg \in KeyArgs, p \in BOOLEAN, now \in {MaxNow} :
          /\ op' = "process_image"
          /\ poll' = p
          /\ idem_key' = ImageIdempotencyKey(arg, image_path, now)
    /\ EnterRequest("POST", "ingest", "submit")
    /\ UNCHANGED <<max_retries, response, job_id, max_attempts, poll_attempt, polls,
                   polledJobs, pollSleeps, outcome>>
    /\ UNCHANGED <<cbVars, ioVars, extVars, keyVars, waitVars>>

\* process_image_url up to the first HTTP attempt
ProcessImageUrl ==
    /\ pc = "idle"
    /\ \E h \in HashValues, arg \in KeyArgs, p \in BOOLEAN, now \in {MaxNow} :
          /\ op' = "process_image_url"
          /\ poll' = p
          /\ idem_key' = UrlIdempotencyKey(arg, h, now)
    /\ EnterRequest("POST", "ingest", "submit")
    /\ UNCHANGED <<max_retries, response, job_id, max_attempts, poll_attempt, polls,
                   polledJobs, pollSleeps, outcome>>
    /\ UNCHANGED <<cbVars, ioVars, extVars, keyVars, waitVars>>

\* the job id that wait_for_job is given by process_image / process_image_url
SubmittedJob(data) == data.job_id

\* mutant of ReturnsAtOnce: the poll flag is ignored
ReturnsAtOnce_Mut(p) == FALSE

\* if not poll: return response["data"]
ReturnsAtOnce(p) == ~p

\* process_image / process_image_url after the submit returned
AfterSubmit ==
    /\ pc = "submitted"
    /\ job_id' = SubmittedJob(response)
    /\ IF ReturnsAtOnce(poll)
       THEN /\ outcome' = Return([type |-> "data", v |-> response.job_id])
            /\ pc' = "done"
            /\ UNCHANGED <<max_attempts, poll_attempt, wait_seconds>>
       ELSE /\ max_attempts' = DefaultMaxAttempts
            /\ wait_seconds' = DefaultWaitSeconds
            /\ poll_attempt' = 0
            /\ pc' = "poll"
            /\ UNCHANGED outcome
    /\ UNCHANGED <<max_retries, op, poll, idem_key, method, target, caller, attempt,
                   last_exception, log, response, polls, polledJobs, pollSleeps>>
    /\ UNCHANGED <<cbVars, ioVars, extVars, keyVars, api_key, pollSlept>>

\* values of wait_seconds passed to wait_for_job
WaitSecondsArgs == {1, DefaultWaitSeconds}

\* a direct call of wait_for_job(job_id, max_attempts, wait_seconds, progress_callback)
WaitForJob ==
    /\ pc = "idle"
    /\ \E j \in JobIds, n \in 0..MaxAttemptsArg, cb \in BOOLEAN, w \in WaitSecondsArgs :
          /\ job_id' = j
          /\ max_attempts' = n
          /\ progress_callback' = cb
          /\ wait_seconds' = w
    /\ op' = "wait_for_job"
    /\ poll_attempt' = 0
    /\ pc' = "poll"
    /\ UNCHANGED <<max_retries, poll, idem_key, method, target, caller, attempt,
                   last_exception, log, response, polls, polledJobs, pollSleeps, outcome>>
    /\ UNCHANGED <<cbCalls, cbLast, ioVars, extVars, keyVars, api_key, pollSlept>>

\* wait_for_job: the loop is entered and get_job_status is called
PollGetStatus ==
    /\ pc = "poll"
    /\ InRange(poll_attempt, max_attempts)
    /\ polls' = polls + 1
    /\ polledJobs' = polledJobs \cup {job_id}
    /\ EnterRequest("GET", job_id, "wait")
    /\ UNCHANGED <<max_retries, op, poll, idem_key, response, job_id, max_attempts,
                   poll_attempt, pollSleeps, outcome>>
    /\ UNCHANGED <<cbVars, ioVars, extVars, keyVars, waitVars>>

\* status in ("completed", "succeeded")
IsSuccess(status) == status \in {"completed", "succeeded"}
\* mutant of IsFailed: the wrong status string is compared
IsFailed_Mut(status) == status = "error"

\* status == "failed"
IsFailed(status) == status = "failed"
\* d.get(key)
Get(v) == IF v = Absent THEN PyNone ELSE v
\* job_status.get("manifest") or job_status.get("result")
JobPayload(data) == PyOr(Get(data.manifest), Get(data.result))
\* job_status.get("error", "Unknown error")
JobError(data) == IF data.error = Absent THEN "Unknown error" ELSE data.error

\* mutant of CallbackArgs: the loop index is passed as it is (0-based)
CallbackArgs_Mut(status, a) == <<status, a>>

\* progress_callback(status, attempt + 1)
CallbackArgs(status, a) == <<status, a + 1>>

\* wait_for_job: the rest of the iteration once get_job_status returned; a
\* progress_callback is foreign code that returns or raises
PollHandle ==
    /\ pc = "polled"
    /\ \E cbReturns \in BOOLEAN :
          /\ ~progress_callback => cbReturns
          /\ IF progress_callback
             THEN /\ cbCalls' = cbCalls + 1
                  /\ cbLast' = CallbackArgs(response.status, poll_attempt)
             ELSE UNCHANGED <<cbCalls, cbLast>>
          /\ IF ~cbReturns
             THEN /\ outcome' = Raise(CallbackError)
                  /\ pc' = "done"
                  /\ UNCHANGED <<poll_attempt, pollSleeps, pollSlept>>
             ELSE IF IsSuccess(response.status)
             THEN /\ outcome' = Return([type |-> "payload", v |-> JobPayload(response)])
                  /\ pc' = "done"
                  /\ UNCHANGED <<poll_attempt, pollSleeps, pollSlept>>
             ELSE IF IsFailed(response.status)
             THEN /\ outcome' = Raise(RuntimeError(JobError(response)))
                  /\ pc' = "done"
                  /\ UNCHANGED <<poll_attempt, pollSleeps, pollSlept>>
             ELSE /\ pollSleeps' = pollSleeps + 1
                  /\ pollSlept' = pollSlept + wait_seconds * TicksPerSecond
                  /\ poll_attempt' = poll_attempt + 1
                  /\ pc' = "poll"
                  /\ UNCHANGED outcome
    /\ UNCHANGED <<max_retries, op, poll, idem_key, method, target, caller, attempt,
                   last_exception, log, response, job_id, max_attempts, polls, polledJobs>>
    /\ UNCHANGED <<progress_callback, ioVars, extVars, keyVars, api_key, wait_seconds>>

\* wait_for_job: the loop ran out
PollTimeout ==
    /\ pc = "poll"
    /\ ~InRange(poll_attempt, max_attempts)
    /\ outcome' = Raise(TimeoutError)
    /\ pc' = "done"
    /\ UNCHANGED <<max_retries, op, poll, idem_key, method, target, caller, attempt,
                   last_exception, log, response, job_id, max_attempts, poll_attempt,
                   polls, polledJobs, pollSleeps>>
    /\ UNCHANGED <<cbVars, ioVars, extVars, keyVars, waitVars>>

\* a direct call of get_job_status(job_id)
GetJobStatus ==
    /\ pc = "idle"
    /\ \E j \in JobIds :
          /\ job_id' = j
          /\ polledJobs' = polledJobs \cup {j}
          /\ EnterRequest("GET", j, "status")
    /\ op' = "get_job_status"
    /\ polls' = polls + 1
    /\ UNCHANGED <<max_retries, poll, idem_key, response, max_attempts, poll_attempt,
                   pollSleeps, outcome>>
    /\ UNCHANGED <<cbVars, ioVars, extVars, keyVars, waitVars>>

\* get_job_status returns response["data"]
GetJobStatusReturn ==
    /\ pc = "status_done"
    /\ outcome' = Return([type |-> "snapshot", v |-> response.status])
    /\ pc' = "done"
    /\ UNCHANGED <<max_retries, op, poll, idem_key, method, target, caller, attempt,
                   last_exception, log, response, job_id, max_attempts, poll_attempt,
                   polls, polledJobs, pollSleeps>>
    /\ UNCHANGED <<cbVars, ioVars, extVars, keyVars, waitVars>>

(***************************************************************************)
(* examples/languages/python/error-handling.py                             *)
(***************************************************************************)
DefaultRetryAfter == 60      \* response.headers.get("Retry-After", 60)

\* mutant of ImgGoError: the base error is raised as the job-failure subclass
ImgGoError_Mut(m) == [NoException EXCEPT !.kind = "JobFailedError", !.msg = m]

\* class ImgGoError(Exception)
ImgGoError(m) == [NoException EXCEPT !.kind = "ImgGoError", !.msg = m]
\* class JobFailedError(ImgGoError)
JobFailedError(m) == [NoException EXCEPT !.kind = "JobFailedError", !.msg = m]

\* f"upload-{image_path}-{pattern_id}"
UploadIdempotencyKey(image_path, pattern_id) ==
    <<"upload-">> \o image_path \o <<"-", pattern_id>>
PatternIds == {"pat"}
\* image paths given to upload_with_retry
UploadPaths == {<<"a">>, <<"b">>}

\* int(response.headers.get("Retry-After", 60)), in half-seconds
RetryAfterWait(r) ==
    (IF r.retry_after = NoRetryAfter THEN DefaultRetryAfter ELSE r.retry_after)
        * TicksPerSecond

\* 2 ** attempt seconds, in half-seconds
UploadBackoff(a) == (2 ^ a) * TicksPerSecond

\* mutant of HasModuleKey: the guard is missing
HasModuleKey_Mut(k) == TRUE

\* not (not IMGGO_API_KEY)
HasModuleKey(k) == Truthy(k)

ErrorHandlingIdle ==
    /\ EH_API_KEY = PyNone
    /\ uw_max_retries = 0
    /\ uw_attempt = 0
    /\ uw_posts = 0
    /\ uw_jobs = 0
    /\ uw_keys = {}
    /\ uw_args = <<>>
    /\ uw_sleep = 0
    /\ pw_job = NoJob
    /\ pw_max_attempts = 0
    /\ pw_attempt = 0
    /\ pw_gets = 0
    /\ pw_last = NoResponse
    /\ pw_sleep = 0

\* the module is loaded (IMGGO_API_KEY = os.getenv(...)) and
\* upload_with_retry(image_path, pattern_id, max_retries) is called
UploadWithRetry ==
    /\ pc = "new"
    /\ op' = "upload_with_retry"
    /\ \E image_path \in UploadPaths, pattern_id \in PatternIds :
          uw_args' = <<image_path, pattern_id>>
    /\ \E env \in ApiKeyValues, n \in 0..MaxRetriesArg :
          /\ EH_API_KEY' = env
          /\ uw_max_retries' = n
          /\ IF HasModuleKey(env)
             THEN /\ pc' = "uw_loop"
                  /\ UNCHANGED outcome
             ELSE /\ outcome' = Raise(ValueError)
                  /\ pc' = "done"
    /\ UNCHANGED <<uw_attempt, uw_posts, uw_jobs, uw_keys, uw_sleep,
                   pw_job, pw_max_attempts, pw_attempt, pw_gets, pw_last, pw_sleep>>
    /\ UNCHANGED <<clientRest, keyVars, batchVars, hookVars>>

\* one iteration of the loop of upload_with_retry, up to the call of poll_with_retry
UploadAttempt ==
    /\ pc = "uw_loop"
    /\ InRange(uw_attempt, uw_max_retries)
    /\ uw_posts' = uw_posts + 1
    /\ uw_keys' = uw_keys \cup {UploadIdempotencyKey(uw_args[1], uw_args[2])}
    /\ \E r \in Responses("POST") :
          CASE r.kind \in {"timeout", "conn"} ->
                  /\ IF uw_attempt < uw_max_retries - 1
                     THEN /\ uw_sleep' = UploadBackoff(uw_attempt)
                          /\ UNCHANGED <<outcome, pc>>
                     ELSE /\ outcome' = Raise(ImgGoError("Max retries exceeded due to "
                                                          \o r.kind))
                          /\ pc' = "done"
                          /\ UNCHANGED uw_sleep
                  /\ uw_attempt' = uw_attempt + 1
                  /\ UNCHANGED <<uw_jobs, pw_job, pw_max_attempts, pw_attempt>>
            [] r.kind = "http" /\ r.code = 429 ->
                  /\ uw_sleep' = RetryAfterWait(r)
                  /\ uw_attempt' = uw_attempt + 1
                  /\ UNCHANGED <<outcome, pc, uw_jobs, pw_job, pw_max_attempts, pw_attempt>>
            [] r.kind = "http" /\ r.code >= 500 ->
                  /\ uw_sleep' = UploadBackoff(uw_attempt)
                  /\ uw_attempt' = uw_attempt + 1
                  /\ UNCHANGED <<outcome, pc, uw_jobs, pw_job, pw_max_attempts, pw_attempt>>
            [] r.kind = "http" /\ r.code >= 400 /\ r.code < 500 /\ r.code # 429 ->
                  /\ outcome' = Raise(ImgGoError("Client error"))
                  /\ pc' = "done"
                  /\ UNCHANGED <<uw_sleep, uw_attempt, uw_jobs, pw_job, pw_max_attempts,
                                 pw_attempt>>
            [] r.kind = "ok" ->
                  /\ uw_jobs' = uw_jobs + 1
                  /\ pw_job' = r.data.job_id
                  /\ pw_max_attempts' = DefaultMaxAttempts
                  /\ pw_attempt' = 0
                  /\ pc' = "pw_loop"
                  /\ UNCHANGED <<outcome, uw_sleep, uw_attempt>>
    /\ UNCHANGED <<op, EH_API_KEY, uw_max_retries, uw_args, pw_gets, pw_last, pw_sleep>>
    /\ UNCHANGED <<clientRest, keyVars, batchVars, hookVars>>

\* raise ImgGoError("Max retries exceeded") after the loop of upload_with_retry
UploadExhausted ==
    /\ pc = "uw_loop"
    /\ ~InRange(uw_attempt, uw_max_retries)
    /\ outcome' = Raise(ImgGoError("Max retries exceeded"))
    /\ pc' = "done"
    /\ UNCHANGED <<op, ehVars, clientRest, keyVars, batchVars, hookVars>>

\* the module is loaded and poll_with_retry(job_id, max_attempts) is called
PollWithRetry ==
    /\ pc = "new"
    /\ op' = "poll_with_retry"
    /\ \E env \in ApiKeyValues, j \in JobIds, n \in 0..MaxAttemptsArg :
          /\ EH_API_KEY' = env
          /\ pw_job' = j
          /\ pw_max_attempts' = n
    /\ pc' = "pw_loop"
    /\ UNCHANGED <<uw_max_retries, uw_attempt, uw_posts, uw_jobs, uw_keys, uw_sleep,
                   uw_args, pw_attempt, pw_gets, pw_last, pw_sleep>>
    /\ UNCHANGED <<outcome, clientRest, keyVars, batchVars, hookVars>>

\* status == "succeeded"
IsSucceeded(status) == status = "succeeded"

\* mutant of UploadCatches: the handlers are written for requests.RequestException
UploadCatches_Mut(e) == e.kind \in {"Timeout", "ConnectionError", "HTTPError"}

\* the except clauses of upload_with_retry, around the POST and the call of
\* poll_with_retry: requests.exceptions.Timeout and requests.exceptions.ConnectionError
UploadCatches(e) == e.kind \in {"Timeout", "ConnectionError"}

\* poll_with_retry raises e: to its caller, or into the try block of
\* upload_with_retry, whose handlers go to the next upload attempt
RaiseFromPoll(e) ==
    IF op = "upload_with_retry" /\ UploadCatches(e)
    THEN /\ uw_attempt' = uw_attempt + 1
         /\ IF uw_attempt < uw_max_retries - 1
            THEN /\ uw_sleep' = UploadBackoff(uw_attempt)
                 /\ pc' = "uw_loop"
                 /\ UNCHANGED outcome
            ELSE /\ outcome' = Raise(ImgGoError("Max retries exceeded due to " \o e.kind))
                 /\ pc' = "done"
                 /\ UNCHANGED uw_sleep
    ELSE /\ outcome' = Raise(e)
         /\ pc' = "done"
         /\ UNCHANGED <<uw_attempt, uw_sleep>>

\* one iteration of the loop of poll_with_retry
PollAttempt ==
    /\ pc = "pw_loop"
    /\ InRange(pw_attempt, pw_max_attempts)
    /\ pw_gets' = pw_gets + 1
    /\ \E r \in Responses("GET") :
          /\ pw_last' = r
          /\ CASE r.kind = "timeout" ->
                     /\ pw_sleep' = 1 * TicksPerSecond
                     /\ pw_attempt' = pw_attempt + 1
                     /\ UNCHANGED <<outcome, pc, uw_attempt, uw_sleep>>
               [] r.kind = "conn" ->
                     /\ pw_sleep' = 2 * TicksPerSecond
                     /\ pw_attempt' = pw_attempt + 1
                     /\ UNCHANGED <<outcome, pc, uw_attempt, uw_sleep>>
               [] r.kind = "http" /\ r.code = 404 ->
                     /\ pw_sleep' = 2 * TicksPerSecond
                     /\ pw_attempt' = pw_attempt + 1
                     /\ UNCHANGED <<outcome, pc, uw_attempt, uw_sleep>>
               [] r.kind = "http" /\ r.code # 404 ->
                     /\ RaiseFromPoll(RequestException(r, pw_attempt))
                     /\ UNCHANGED <<pw_sleep, pw_attempt>>
               [] r.kind = "ok" /\ IsSucceeded(r.data.status) ->
                     /\ IF Truthy(JobPayload(r.data))
                        THEN /\ outcome' = Return([type |-> "payload",
                                                   v |-> JobPayload(r.data)])
                             /\ pc' = "done"
                             /\ UNCHANGED <<uw_attempt, uw_sleep>>
                        ELSE RaiseFromPoll(
                                 JobFailedError("Job succeeded but no result returned"))
                     /\ UNCHANGED <<pw_sleep, pw_attempt>>
               [] r.kind = "ok" /\ IsFailed(r.data.status) ->
                     /\ RaiseFromPoll(JobFailedError(JobError(r.data)))
                     /\ UNCHANGED <<pw_sleep, pw_attempt>>
               [] OTHER ->
                     /\ pw_sleep' = 2 * TicksPerSecond
                     /\ pw_attempt' = pw_attempt + 1
                     /\ UNCHANGED <<outcome, pc, uw_attempt, uw_sleep>>
    /\ UNCHANGED <<op, EH_API_KEY, uw_max_retries, uw_posts, uw_jobs, uw_keys, uw_args,
                   pw_job, pw_max_attempts>>
    /\ UNCHANGED <<clientRest, keyVars, batchVars, hookVars>>

\* raise ImgGoError("Job timeout ...") after the loop of poll_with_retry
PollExhausted ==
    /\ pc = "pw_loop"
    /\ ~InRange(pw_attempt, pw_max_attempts)
    /\ RaiseFromPoll(ImgGoError("Job timeout"))
    /\ UNCHANGED <<op, EH_API_KEY, uw_max_retries, uw_posts, uw_jobs, uw_keys, uw_args,
                   pw_job, pw_max_attempts, pw_attempt, pw_gets, pw_last, pw_sleep>>
    /\ UNCHANGED <<clientRest, keyVars, batchVars, hookVars>>

\* async-batch.py not loaded
BatchIdle ==
    /\ B_API_KEY = PyNone
    /\ image_paths = <<>>
    /\ b_pc = "-"
    /\ upload_results = <<>>
    /\ successful_uploads = <<>>
    /\ poll_attempts = <<>>
    /\ final_results = <<>>
    /\ b_outcome = NoOutcome

\* webhook-example.py not loaded
WebhookIdle ==
    /\ WEBHOOK_SECRET = "-"
    /\ h_requests = 0
    /\ h_body = "-"
    /\ h_signature = <<>>
    /\ h_status = 0
    /\ h_processed = "-"

(***************************************************************************)
(* Spec: one call of the client or of error-handling.py                    *)
(***************************************************************************)
ClientLocals ==
    /\ op = "-"
    /\ poll = FALSE
    /\ idem_key = NoKey
    /\ method = "-"
    /\ target = "-"
    /\ caller = "-"
    /\ attempt = 0
    /\ last_exception = NoException
    /\ log = <<>>
    /\ response = NoData
    /\ job_id = NoJob
    /\ max_attempts = 0
    /\ poll_attempt = 0
    /\ polls = 0
    /\ polledJobs = {}
    /\ pollSleeps = 0
    /\ progress_callback = FALSE
    /\ cbCalls = 0
    /\ cbLast = <<"-", 0>>
    /\ outcome = NoOutcome
    /\ wait_seconds = 0
    /\ pollSlept = 0
    /\ gets = 0
    /\ f_pos = 0
    /\ ErrorHandlingIdle

\* a constructed client that has not been called
ClientIdle ==
    /\ pc = "idle"
    /\ api_key = "sk"
    /\ ClientLocals

Init ==
    /\ max_retries \in 0..MaxRetriesArg
    /\ pc = "new"
    /\ api_key = PyNone
    /\ ClientLocals
    /\ kPaths = <<>>
    /\ kNow = 0
    /\ kKeys = <<>>
    /\ BatchIdle
    /\ WebhookIdle

Next ==
    \/ Construct
    \/ ProcessImage
    \/ ProcessImageUrl
    \/ AfterSubmit
    \/ WaitForJob
    \/ GetJobStatus
    \/ GetJobStatusReturn
    \/ PollGetStatus
    \/ PollHandle
    \/ PollTimeout
    \/ MakeRequestAttempt
    \/ RaiseLastException
    \/ UploadWithRetry
    \/ UploadAttempt
    \/ UploadExhausted
    \/ PollWithRetry
    \/ PollAttempt
    \/ PollExhausted

Spec == Init /\ [][Next]_vars

(***************************************************************************)
(* SpecLive: the same calls, run to their end                              *)
(***************************************************************************)
InitLive ==
    /\ max_retries \in 0..MaxRetriesLive
    /\ pc = "new"
    /\ api_key = PyNone
    /\ ClientLocals
    /\ kPaths = <<>>
    /\ kNow = 0
    /\ kKeys = <<>>
    /\ BatchIdle
    /\ WebhookIdle

\* A call is one thread of a Python program: the interpreter goes on to the next
\* statement, every request is made with a timeout (self.timeout, timeout=30,
\* timeout=10) and every time.sleep is finite, so an enabled step is taken.
SpecLive == InitLive /\ [][Next]_vars /\ WF_vars(Next)

(***************************************************************************)
(* SpecKeys: two process_image calls at one instant, no key passed         *)
(***************************************************************************)
\* lines 68-69 of the next process_image call
GenerateKey ==
    /\ Len(kKeys) < Len(kPaths)
    /\ kKeys' = Append(kKeys, ImageIdempotencyKey(<<>>, kPaths[Len(kKeys) + 1], kNow))
    /\ UNCHANGED <<kPaths, kNow>>
    /\ UNCHANGED <<clientVars, extVars>>

InitKeys ==
    /\ max_retries = 0
    /\ ClientIdle
    /\ kPaths \in FilePaths \X FilePaths
    /\ kNow \in 0..MaxNow
    /\ kKeys = <<>>
    /\ BatchIdle
    /\ WebhookIdle

NextKeys == GenerateKey

SpecKeys == InitKeys /\ [][NextKeys]_vars


(***************************************************************************)
(* SpecBatch: one call of process_batch of async-batch.py                  *)
(***************************************************************************)
\* the image paths a batch is made of
BatchPaths == <<"img1", "img2", "img3", "img4">>

\* the dict an upload or poll task returns; NoEntry while the task is running
BatchEntry(j, p, s, res, err) ==
    [job_id |-> j, image_path |-> p, status |-> s, result |-> res, error |-> err]
NoEntry == BatchEntry(NoJob, "-", "-", Absent, Absent)

\* {"data": {"job_id": null}}
NullJobResponse ==
    [kind |-> "ok", code |-> 200, retry_after |-> NoRetryAfter,
     data |-> [NoData EXCEPT !.job_id = PyNone]]

\* str(e) of the exception a failed request raises
ErrorText(r) == RequestException(r, 0).kind

\* what upload_image_async returns for image_path when the POST is answered with r
UploadEntry(image_path, r) ==
    IF r.kind = "ok"
    THEN BatchEntry(r.data.job_id, image_path, "uploaded", Absent, Absent)
    ELSE BatchEntry(PyNone, image_path, "error", Absent, ErrorText(r))

\* mutant of IsSuccessfulUpload: no upload is filtered out
IsSuccessfulUpload_Mut(r) == TRUE

\* r["status"] == "uploaded" and r["job_id"]
IsSuccessfulUpload(r) == r.status = "uploaded" /\ Truthy(r.job_id)

\* mutant of AllDone: gather returns without waiting for its tasks
AllDone_Mut(results) == TRUE

\* await asyncio.gather(*tasks) returns when every task has returned its entry
AllDone(results) == \A i \in 1..Len(results) : results[i] # NoEntry

\* the module is loaded and process_batch(image_paths, pattern_id) is called
ProcessBatch ==
    /\ b_pc = "new"
    /\ \E env \in ApiKeyValues, n \in 0..MaxBatch :
          /\ B_API_KEY' = env
          /\ image_paths' = SubSeq(BatchPaths, 1, n)
          /\ IF Truthy(env)
             THEN /\ upload_results' = [i \in 1..n |-> NoEntry]
                  /\ b_pc' = "uploading"
                  /\ UNCHANGED b_outcome
             ELSE /\ b_outcome' = Raise(ValueError)
                  /\ b_pc' = "done"
                  /\ UNCHANGED upload_results
    /\ UNCHANGED <<successful_uploads, poll_attempts, final_results>>
    /\ UNCHANGED <<clientVars, ehVars, hookVars, keyVars>>

\* the upload task of the i-th image runs to its end
UploadImageAsync(i) ==
    /\ b_pc = "uploading"
    /\ upload_results[i] = NoEntry
    /\ \E r \in Responses("POST") \cup {NullJobResponse} :
          upload_results' = [upload_results EXCEPT ![i] = UploadEntry(image_paths[i], r)]
    /\ UNCHANGED <<B_API_KEY, image_paths, b_pc, successful_uploads, poll_attempts,
                   final_results, b_outcome>>
    /\ UNCHANGED <<clientVars, ehVars, hookVars, keyVars>>

\* asyncio.gather of the upload tasks has returned: filter, then return or start polling
GatherUploads ==
    /\ b_pc = "uploading"
    /\ AllDone(upload_results)
    /\ successful_uploads' = SelectSeq(upload_results, IsSuccessfulUpload)
    /\ IF successful_uploads' = <<>>
       THEN /\ b_outcome' = Return(upload_results)
            /\ b_pc' = "done"
            /\ UNCHANGED <<poll_attempts, final_results>>
       ELSE /\ poll_attempts' = [k \in 1..Len(successful_uploads') |-> 0]
            /\ final_results' = [k \in 1..Len(successful_uploads') |-> NoEntry]
            /\ b_pc' = "polling"
            /\ UNCHANGED b_outcome
    /\ UNCHANGED <<B_API_KEY, image_paths, upload_results>>
    /\ UNCHANGED <<clientVars, ehVars, hookVars, keyVars>>

\* mutant of PollTaskArgs: every poll task is given the first upload's job
PollTaskArgs_Mut(k) == successful_uploads[1]

\* poll_job_async(session, r["job_id"], r["image_path"]) for r in successful_uploads
PollTaskArgs(k) == successful_uploads[k]

\* one iteration of the loop of the k-th poll task
PollJobAsync(k) ==
    /\ b_pc = "polling"
    /\ final_results[k] = NoEntry
    /\ InRange(poll_attempts[k], DefaultMaxAttempts)
    /\ LET u == PollTaskArgs(k) IN
       \E r \in Responses("GET") :
          CASE r.kind # "ok" ->
                  /\ final_results' = [final_results EXCEPT ![k] =
                        BatchEntry(u.job_id, u.image_path, "error", Absent, ErrorText(r))]
                  /\ UNCHANGED poll_attempts
            [] r.kind = "ok" /\ IsSucceeded(r.data.status) ->
                  /\ final_results' = [final_results EXCEPT ![k] =
                        BatchEntry(u.job_id, u.image_path, "completed",
                                   JobPayload(r.data), Absent)]
                  /\ UNCHANGED poll_attempts
            [] r.kind = "ok" /\ IsFailed(r.data.status) ->
                  /\ final_results' = [final_results EXCEPT ![k] =
                        BatchEntry(u.job_id, u.image_path, "failed", Absent,
                                   JobError(r.data))]
                  /\ UNCHANGED poll_attempts
            [] OTHER ->
                  /\ poll_attempts' = [poll_attempts EXCEPT ![k] = @ + 1]
                  /\ UNCHANGED final_results
    /\ UNCHANGED <<B_API_KEY, image_paths, b_pc, upload_results, successful_uploads,
                   b_outcome>>
    /\ UNCHANGED <<clientVars, ehVars, hookVars, keyVars>>

\* the loop of the k-th poll task is exhausted
PollJobTimeout(k) ==
    /\ b_pc = "polling"
    /\ final_results[k] = NoEntry
    /\ ~InRange(poll_attempts[k], DefaultMaxAttempts)
    /\ LET u == PollTaskArgs(k) IN
          final_results' = [final_results EXCEPT ![k] =
              BatchEntry(u.job_id, u.image_path, "timeout", Absent, Absent)]
    /\ UNCHANGED <<B_API_KEY, image_paths, b_pc, upload_results, successful_uploads,
                   poll_attempts, b_outcome>>
    /\ UNCHANGED <<clientVars, ehVars, hookVars, keyVars>>

\* asyncio.gather of the poll tasks has returned: return final_results
GatherPolls ==
    /\ b_pc = "polling"
    /\ AllDone(final_results)
    /\ b_outcome' = Return(final_results)
    /\ b_pc' = "done"
    /\ UNCHANGED <<B_API_KEY, image_paths, upload_results, successful_uploads,
                   poll_attempts, final_results>>
    /\ UNCHANGED <<clientVars, ehVars, hookVars, keyVars>>

InitBatch ==
    /\ max_retries = 0
    /\ ClientIdle
    /\ kPaths = <<>>
    /\ kNow = 0
    /\ kKeys = <<>>
    /\ WebhookIdle
    /\ B_API_KEY = PyNone
    /\ image_paths = <<>>
    /\ b_pc = "new"
    /\ upload_results = <<>>
    /\ successful_uploads = <<>>
    /\ poll_attempts = <<>>
    /\ final_results = <<>>
    /\ b_outcome = NoOutcome

NextBatch ==
    \/ ProcessBatch
    \/ \E i \in 1..Len(upload_results) : UploadImageAsync(i)
    \/ GatherUploads
    \/ \E k \in 1..Len(final_results) : PollJobAsync(k)
    \/ \E k \in 1..Len(final_results) : PollJobTimeout(k)
    \/ GatherPolls

SpecBatch == InitBatch /\ [][NextBatch]_vars

(***************************************************************************)
(* SpecWebhook: the webhook receiver of webhook-example.py                 *)
(***************************************************************************)
\* os.getenv("WEBHOOK_SECRET", "your_webhook_secret_here")
DefaultSecret == "your_webhook_secret_here"
SecretValues == {DefaultSecret, "whsec_1", "whsec_2"}

\* raw request bodies: the JSON of an event of each type, and a body that is not JSON
InvalidBody == "not json"
EventTypes == {"job.succeeded", "job.failed", "job.queued"}
Bodies == EventTypes \cup {InvalidBody}

\* hmac.new(key, payload, hashlib.sha256).hexdigest(), taken as collision-free
HmacSha256(key, payload) == <<key, payload>>

\* f"sha256={expected}"
ExpectedSignature(key, payload) == <<"sha256=">> \o HmacSha256(key, payload)

\* X-ImgGo-Signature values a sender can put on a request: none (the header
\* defaults to ""), or a digest of some body under some key, with or without the
\* sha256= prefix
SignatureHeaders ==
    {<<>>}
    \cup {<<pfx>> \o HmacSha256(k, b) : pfx \in {"sha256=", "hex"}, k \in SecretValues,
                                        b \in Bodies}

\* verify_webhook_signature(payload, signature)
verify_webhook_signature(secret, payload, signature) ==
    ExpectedSignature(secret, payload) = signature

\* if WEBHOOK_SECRET != "your_webhook_secret_here"
VerificationEnabled(secret) == secret # DefaultSecret

\* handle_webhook serves one POST /webhook
handle_webhook ==
    /\ h_requests < MaxRequests
    /\ h_requests' = h_requests + 1
    /\ \E body \in Bodies, signature \in SignatureHeaders :
          /\ h_body' = body
          /\ h_signature' = signature
          /\ IF /\ VerificationEnabled(WEBHOOK_SECRET)
                /\ ~verify_webhook_signature(WEBHOOK_SECRET, body, signature)
             THEN /\ h_status' = 401
                  /\ h_processed' = "none"
             ELSE IF body = InvalidBody
             THEN /\ h_status' = 400
                  /\ h_processed' = "none"
             ELSE /\ h_status' = 200
                  /\ h_processed' = IF body \in {"job.succeeded", "job.failed"}
                                    THEN body ELSE "none"
    /\ UNCHANGED WEBHOOK_SECRET
    /\ UNCHANGED <<clientVars, ehVars, batchVars, keyVars>>

InitWebhook ==
    /\ max_retries = 0
    /\ ClientIdle
    /\ kPaths = <<>>
    /\ kNow = 0
    /\ kKeys = <<>>
    /\ BatchIdle
    /\ WEBHOOK_SECRET \in SecretValues
    /\ h_requests = 0
    /\ h_body = "-"
    /\ h_signature = <<>>
    /\ h_status = 0
    /\ h_processed = "-"

NextWebhook == handle_webhook

SpecWebhook == InitWebhook /\ [][NextWebhook]_vars

(***************************************************************************)
(* Reading the log of a _make_request call                                 *)
(***************************************************************************)
ReqIdx(l) == {i \in 1..Len(l) : l[i].ev = "req"}
SleepIdx(l) == {i \in 1..Len(l) : l[i].ev = "sleep"}
NumReqs(l) == Cardinality(ReqIdx(l))
\* the value of the loop variable attempt when the request at position i was made
AttemptAt(l, i) == Cardinality({j \in ReqIdx(l) : j < i})
Is4xxNot429(r) == r.kind = "http" /\ r.code \in 400..499 /\ r.code # 429
IsServerOrNetworkFailure(r) ==
    \/ r.kind = "http" /\ r.code \in 500..599
    \/ r.kind \in {"timeout", "conn"}
IsRetryableFailure(r) == IsServerOrNetworkFailure(r) \/ (r.kind = "http" /\ r.code = 429)
\* the exception that the request at position i of the log raised
ExceptionAt(l, i) ==
    [kind |-> IF l[i].resp.kind = "http" THEN "HTTPError"
              ELSE IF l[i].resp.kind = "timeout" THEN "Timeout" ELSE "ConnectionError",
     code |-> l[i].resp.code, retry_after |-> l[i].resp.retry_after,
     at |-> AttemptAt(l, i), msg |-> ""]
\* the call is inside wait_for_job, or has left it
InWaitForJob == op = "wait_for_job" \/ (poll /\ job_id # NoJob)

(***************************************************************************)
(* C1..C10                                                                 *)
(***************************************************************************)

\* C1: a submit attempt answered by a 4xx other than 429 is the last entry of the
\* log (no sleep and no request follows it) and its error is what the call raises,
\* on every attempt and for every max_retries.
C1_ClientErrorRaisedImmediately ==
    caller = "submit" =>
        \A i \in ReqIdx(log) :
            Is4xxNot429(log[i].resp) =>
                /\ i = Len(log)
                /\ pc = "done"
                /\ outcome.kind = "raise"
                /\ outcome.exc = ExceptionAt(log, i)

\* C1 witness: a 4xx (not 429) on a later attempt of a submit, after a backoff sleep.
C1_Witness ==
    /\ caller = "submit"
    /\ Len(log) >= 3
    /\ log[Len(log)].ev = "req"
    /\ Is4xxNot429(log[Len(log)].resp)
    /\ outcome.kind = "raise"

\* C2: when a submit ended in an error and every attempt failed with a 5xx, a
\* timeout or a connection error, exactly max_retries attempts were made, one sleep
\* sits between each two successive attempts and none after the last, and the
\* delays are strictly increasing.
C2_RetriesThenRaises ==
    ( /\ caller = "submit"
      /\ pc = "done"
      /\ outcome.kind = "raise"
      /\ \A i \in ReqIdx(log) : IsServerOrNetworkFailure(log[i].resp) )
    => /\ NumReqs(log) = max_retries
       /\ \A i \in 1..Len(log) : (log[i].ev = "req") <=> (i % 2 = 1)
       /\ Len(log) = IF max_retries = 0 THEN 0 ELSE 2 * max_retries - 1
       /\ \A i, j \in SleepIdx(log) : i < j => log[i].d < log[j].d

\* C2 witness: three failed attempts (5xx, timeout, connection error) and the raise.
C2_Witness ==
    /\ caller = "submit"
    /\ pc = "done"
    /\ outcome.kind = "raise"
    /\ max_retries = 3
    /\ NumReqs(log) = 3
    /\ \A i \in ReqIdx(log) : IsServerOrNetworkFailure(log[i].resp)
    /\ \E i \in ReqIdx(log) : log[i].resp.kind = "timeout"
    /\ \E i \in ReqIdx(log) : log[i].resp.kind = "http"

\* C3 (as claimed): when _make_request raises after its loop ran out, for any
\* max_retries, the error raised is the error of the last attempt made.
C3_LastErrorSurfaced ==
    ( /\ pc = "done"
      /\ outcome.kind = "raise"
      /\ caller \in {"submit", "wait", "status"}
      /\ outcome.exc.kind \notin {"RuntimeError", "TimeoutError"}
      /\ attempt >= max_retries )
    => /\ ReqIdx(log) # {}
       /\ log[Len(log)].ev = "req"
       /\ outcome.exc = ExceptionAt(log, Len(log))

\* C4 (as claimed): after a 429 carrying Retry-After: N, the sleeps before the next
\* attempt add up to at least N seconds.
C4_RetryAfterHonoured ==
    \A i \in ReqIdx(log) :
        ( /\ log[i].resp.kind = "http"
          /\ log[i].resp.code = 429
          /\ log[i].resp.retry_after # NoRetryAfter
          /\ \E j \in ReqIdx(log) : j > i )
        => \E k \in SleepIdx(log) :
              /\ k = i + 1
              /\ log[k].d >= log[i].resp.retry_after * TicksPerSecond

\* C5 (as claimed): a success snapshot holding both manifest and result makes
\* wait_for_job return the manifest, whatever its value.
C5_ManifestPreferred ==
    ( /\ pc = "done"
      /\ InWaitForJob
      /\ outcome.kind = "return"
      /\ response.manifest # Absent
      /\ response.result # Absent )
    => outcome.value = [type |-> "payload", v |-> response.manifest]

C7_NoTerminalStatusTimesOut ==
    ( /\ pc = "done"
      /\ InWaitForJob
      /\ polls = max_attempts
      /\ pollSleeps = max_attempts )
    => /\ outcome.kind = "raise"
       /\ outcome.exc.kind = "TimeoutError"

\* C7 witness: several polls, all non-terminal, then the end of the call.
C7_Witness ==
    /\ pc = "done"
    /\ InWaitForJob
    /\ max_attempts >= 2
    /\ polls = max_attempts
    /\ pollSleeps = max_attempts
    /\ response.status \in NonTerminalStatuses

\* C8 (as claimed): two process_image calls at the same instant with different
\* image paths and no key passed generate different keys.
C8_DistinctPathsDistinctKeys ==
    (Len(kKeys) = 2 /\ kPaths[1] # kPaths[2]) => kKeys[1] # kKeys[2]

\* C9 (as claimed): process_image / process_image_url with poll=True whose last
\* poll returned succeeded with manifest M returns exactly M, after n+1 polls
\* (n non-terminal ones, n < max_attempts), all for the job id of the submit.
C9_ProcessReturnsManifest ==
    ( /\ op \in {"process_image", "process_image_url"}
      /\ poll
      /\ pc = "done"
      /\ caller = "wait"
      /\ response.status = "succeeded"
      /\ response.manifest # Absent )
    => /\ outcome = Return([type |-> "payload", v |-> response.manifest])
       /\ polls = pollSleeps + 1
       /\ pollSleeps < max_attempts
       /\ polledJobs = {job_id}

\* C10: when a submit returns, the k attempts before the successful one (k <
\* max_retries) failed with a retryable error, each was followed by exactly one
\* sleep, the first sleep is 0.5 s and every later one is twice the one before,
\* and the response returned is the one of the successful attempt.
C10_SucceedsAfterBackoff ==
    pc = "submitted" =>
        LET k == NumReqs(log) - 1 IN
        /\ k >= 0
        /\ k < max_retries
        /\ Len(log) = 2 * k + 1
        /\ \A i \in 1..k :
              /\ log[2 * i - 1].ev = "req"
              /\ IsRetryableFailure(log[2 * i - 1].resp)
              /\ log[2 * i].ev = "sleep"
              /\ IF i = 1 THEN 2 * log[2 * i].d = TicksPerSecond
                 ELSE log[2 * i].d = 2 * log[2 * i - 2].d
        /\ log[2 * k + 1].ev = "req"
        /\ log[2 * k + 1].resp.kind = "ok"
        /\ response = log[2 * k + 1].resp.data

\* C10 witness: two failed attempts, one of them a 503, then the success.
C10_Witness ==
    /\ pc = "submitted"
    /\ Len(log) = 5
    /\ \E i \in ReqIdx(log) : log[i].resp.code = 503

(***************************************************************************)
(* C11..C20                                                                *)
(***************************************************************************)
TransportKinds == {"HTTPError", "Timeout", "ConnectionError", "TypeError"}

\* C11: wait_for_job with max_attempts = n whose polls all return a non-terminal
\* status makes exactly n polls and then raises TimeoutError; before its k-th poll
\* it has slept k-1 times, wait_seconds each time (one sleep between two
\* consecutive polls).
C11_TimeoutAfterExactlyNPolls ==
    /\ (InWaitForJob /\ caller = "wait" /\ pc \in {"request", "polled"}) =>
          /\ pollSleeps = polls - 1
          /\ pollSlept = pollSleeps * wait_seconds * TicksPerSecond
    /\ (InWaitForJob /\ pc = "done" /\ pollSleeps = polls) =>
          /\ polls = max_attempts
          /\ outcome.kind = "raise"
          /\ outcome.exc.kind = "TimeoutError"
          /\ pollSlept = polls * wait_seconds * TicksPerSecond

\* C11 witness: max_attempts = 3, three non-terminal polls, the call has ended.
C11_Witness ==
    /\ op = "wait_for_job"
    /\ pc = "done"
    /\ max_attempts = 3
    /\ polls = 3
    /\ pollSleeps = 3
    /\ wait_seconds = 1
    /\ response.status = "processing"

\* C12: process_image / process_image_url with poll=False return the data of the
\* successful submit (the job id) without any get_job_status call, status GET or
\* polling sleep.
C12_NoPollReturnsAtOnce ==
    ( /\ op \in {"process_image", "process_image_url"}
      /\ ~poll
      /\ pc = "done"
      /\ \E i \in ReqIdx(log) : log[i].resp.kind = "ok" )
    => /\ outcome.kind = "return"
       /\ outcome.value = [type |-> "data", v |-> log[Len(log)].resp.data.job_id]
       /\ polls = 0
       /\ polledJobs = {}
       /\ pollSleeps = 0
       /\ pollSlept = 0
       /\ \A i \in ReqIdx(log) : log[i].method = "POST"

\* C12 witness: poll=False, the submit succeeded on its second attempt, the call
\* has returned.
C12_Witness ==
    /\ op = "process_image_url"
    /\ ~poll
    /\ pc = "done"
    /\ outcome.kind = "return"
    /\ Len(log) = 3

\* number of iterations of wait_for_job that have fetched a status and gone past
\* the progress_callback line
IterationsHandled ==
    IF pc = "polled" \/ (pc = "request" /\ caller = "wait")
       \/ (pc = "done" /\ caller = "wait" /\ (log = <<>> \/ log[Len(log)].resp.kind # "ok"))
    THEN polls - 1
    ELSE polls

\* C15: with a progress_callback, every iteration of wait_for_job that fetched a
\* status has invoked the callback exactly once, the terminal iteration included,
\* with the status of that iteration and its attempt index (counted from 1).
C15_CallbackOncePerIteration ==
    (op = "wait_for_job" /\ progress_callback) =>
        /\ cbCalls = IterationsHandled
        /\ cbCalls > 0 =>
              /\ cbLast[2] = cbCalls
              /\ pc # "polled" => cbLast[1] = response.status

\* C15 witness: the callback has been invoked for two non-terminal iterations and
\* for the iteration that saw the terminal status.
C15_Witness ==
    /\ op = "wait_for_job"
    /\ progress_callback
    /\ pc = "done"
    /\ cbCalls = 3
    /\ response.status = "succeeded"
    /\ outcome.kind = "return"

\* C16 (as claimed): whatever the progress_callback does, a finished wait_for_job
\* has the outcome that the server's answers alone determine: a transport error, a
\* result, a job failure, or a timeout after max_attempts polls.
C16_CallbackDoesNotAffectControlFlow ==
    (op = "wait_for_job" /\ pc = "done") =>
        IF polls > 0 /\ (log = <<>> \/ log[Len(log)].resp.kind # "ok")
        THEN outcome.kind = "raise" /\ outcome.exc.kind \in TransportKinds
        ELSE IF response.status \in {"completed", "succeeded"}
        THEN outcome.kind = "return"
        ELSE IF response.status = "failed"
        THEN outcome.kind = "raise" /\ outcome.exc.kind = "RuntimeError"
        ELSE /\ outcome.kind = "raise"
             /\ outcome.exc.kind = "TimeoutError"
             /\ polls = max_attempts

\* C17 (as claimed): a get_job_status call makes a single GET.
C17_SingleGet ==
    caller \in {"status", "wait"} => NumReqs(log) <= 1

\* C17 (amended): a get_job_status call makes at most max_retries GETs, all for
\* its job; a 5xx, timeout or connection error (or 429) on a GET that is not the
\* max_retries-th is followed by a backoff sleep and another GET inside the call,
\* and such an error is raised only when it happened on the max_retries-th GET.
C17_GetRetriedInside ==
    caller \in {"status", "wait"} =>
        /\ NumReqs(log) <= max_retries
        /\ \A i \in ReqIdx(log) :
              /\ log[i].method = "GET"
              /\ log[i].target = job_id
              /\ (IsRetryableFailure(log[i].resp) /\ AttemptAt(log, i) < max_retries - 1) =>
                    /\ i + 1 \in SleepIdx(log)
                    /\ i + 1 = Len(log) => (pc = "request" /\ outcome.kind = "none")
                    /\ i + 1 < Len(log) => i + 2 \in ReqIdx(log)
        /\ ( /\ pc = "done"
             /\ log # <<>>
             /\ IsRetryableFailure(log[Len(log)].resp) )
           => /\ NumReqs(log) = max_retries
              /\ outcome = Raise(ExceptionAt(log, Len(log)))

\* C17 witness: a direct get_job_status call whose first two GETs failed with a
\* 503 and a timeout and whose third GET succeeded.
C17_Witness ==
    /\ op = "get_job_status"
    /\ pc = "done"
    /\ outcome.kind = "return"
    /\ NumReqs(log) = 3
    /\ log[1].resp.code = 503
    /\ log[3].resp.kind = "timeout"

\* the entry points of error-handling.py
ErrorHandlingOps == {"upload_with_retry", "poll_with_retry"}

\* C13: with no API key (argument and environment both missing or empty) the
\* constructor of ImgGoClient ends with ValueError and no client request is ever
\* made, and upload_with_retry ends with ValueError with no POST and no GET made.
C13_NoKeyFailsBeforeHttp ==
    /\ (op \notin ErrorHandlingOps /\ pc # "new" /\ ~Truthy(api_key)) =>
          /\ pc = "done"
          /\ op = "-"
          /\ outcome = Raise(ValueError)
          /\ log = <<>>
          /\ polls = 0
    /\ (op = "upload_with_retry" /\ ~Truthy(EH_API_KEY)) =>
          /\ pc = "done"
          /\ outcome = Raise(ValueError)
          /\ uw_posts = 0
          /\ pw_gets = 0

\* C13 witness: upload_with_retry was called with IMGGO_API_KEY set to the empty
\* string and ended with ValueError.
C13_Witness ==
    /\ op = "upload_with_retry"
    /\ EH_API_KEY = EmptyStr
    /\ uw_max_retries = MaxRetriesArg
    /\ pc = "done"
    /\ outcome = Raise(ValueError)

\* C14 (as claimed): wait_for_job and poll_with_retry both stop polling on a status
\* of completed or succeeded, and return the payload when there is one: no call is
\* still polling, or ends otherwise, after such an answer.
C14_CompletedSucceededEquivalent ==
    /\ ( /\ InWaitForJob
         /\ pc = "done"
         /\ response.status \in SuccessStatuses
         /\ Truthy(JobPayload(response))
         /\ ~(outcome.kind = "raise" /\ outcome.exc = CallbackError) )
       => outcome.kind = "return"
    /\ ( /\ op \in ErrorHandlingOps
         /\ pw_last.kind = "ok"
         /\ pw_last.data.status \in SuccessStatuses
         /\ Truthy(JobPayload(pw_last.data)) )
       => /\ pc = "done"
          /\ outcome = Return([type |-> "payload", v |-> JobPayload(pw_last.data)])

\* C18 (as claimed): a 404 answer to a status request is not fatal on its first
\* occurrence. A client call that ended with the HTTPError of a 404 made more than
\* one GET, and a poll_with_retry whose last GET was answered 404 ends only by
\* exhausting max_attempts.
C18_NotFoundRetried ==
    /\ ( /\ caller \in {"status", "wait"}
         /\ pc = "done"
         /\ outcome.kind = "raise"
         /\ outcome.exc.kind = "HTTPError"
         /\ outcome.exc.code = 404 )
       => (NumReqs(log) >= 2 \/ polls >= 2)
    /\ ( /\ op \in ErrorHandlingOps
         /\ pc = "done"
         /\ pw_last.kind = "http"
         /\ pw_last.code = 404 )
       => /\ outcome = Raise(ImgGoError("Job timeout"))
          /\ pw_gets = pw_max_attempts

\* C19 (as claimed): the list process_batch returns has exactly one entry for each
\* image path it was given, whichever uploads failed.
C19_OneEntryPerImage ==
    (b_pc = "done" /\ b_outcome.kind = "return") =>
        /\ Len(b_outcome.value) = Len(image_paths)
        /\ \A i \in 1..Len(image_paths) :
              Cardinality({k \in 1..Len(b_outcome.value) :
                              b_outcome.value[k].image_path = image_paths[i]}) = 1

\* C20 (as claimed): whatever WEBHOOK_SECRET is, a request whose X-ImgGo-Signature
\* is not "sha256=" followed by the HMAC-SHA256 of its body under WEBHOOK_SECRET is
\* answered 401 and no event handling runs for it.
C20_OnlySignedEventsProcessed ==
    (h_requests > 0 /\ h_signature # ExpectedSignature(WEBHOOK_SECRET, h_body)) =>
        /\ h_status = 401
        /\ h_processed = "none"

(***************************************************************************)
(* C21..C30                                                                *)
(***************************************************************************)
\* the call is process_image / process_image_url with poll=True
PollingSubmit == op \in {"process_image", "process_image_url"} /\ poll

\* C21 (as claimed): a finished process_image / process_image_url call with
\* poll=True has either returned the payload, or raised RuntimeError, TimeoutError
\* or a requests exception; RuntimeError is raised only for a job seen as failed
\* and TimeoutError never for such a job.
C21_ExactlyOneOutcome ==
    (PollingSubmit /\ pc = "done") =>
        /\ \/ outcome.kind = "return" /\ outcome.value.type = "payload"
           \/ /\ outcome.kind = "raise"
              /\ outcome.exc.kind \in {"RuntimeError", "TimeoutError", "HTTPError",
                                       "Timeout", "ConnectionError"}
        /\ (caller = "wait" /\ response.status = "failed") =>
              outcome.exc.kind # "TimeoutError"
        /\ outcome.exc.kind = "RuntimeError" =>
              (caller = "wait" /\ response.status = "failed")

\* C22: all the POST attempts of one process_image / process_image_url call carry
\* one Idempotency-Key, the one the call started with, and all the POST attempts of
\* one upload_with_retry call carry the key made of its image_path and pattern_id.
C22_SameKeyOnEveryAttempt ==
    /\ caller = "submit" =>
          \A i \in ReqIdx(log) :
              /\ log[i].method = "POST"
              /\ log[i].key = idem_key
              /\ log[i].key = log[1].key
              /\ log[i].key # NoKey
    /\ op = "upload_with_retry" =>
          /\ Cardinality(uw_keys) <= 1
          /\ uw_posts > 0 => uw_keys = {UploadIdempotencyKey(uw_args[1], uw_args[2])}

\* C22 witness: a process_image call that generated its key and sent it on three
\* attempts.
C22_Witness ==
    /\ op = "process_image"
    /\ caller = "submit"
    /\ idem_key \notin KeyArgs
    /\ NumReqs(log) = 3
    /\ log[1].resp.kind = "timeout"
    /\ log[3].resp.code = 503

\* C23: a wait_for_job call never makes more than max_attempts status polls nor
\* more than max_attempts * max_retries GET requests, and whatever the server
\* answers it comes to its end, returning or raising.
C23_WaitForJobBounded ==
    /\ [](InWaitForJob => /\ polls <= max_attempts
                          /\ gets <= max_attempts * max_retries
                          /\ gets <= polls * max_retries)
    /\ (InWaitForJob /\ pc # "done")
          ~> (pc = "done" /\ outcome.kind \in {"return", "raise"})

\* C23 witness: a wait_for_job call that used every poll and every retry it was
\* allowed and then timed out.
C23_Witness ==
    /\ op = "wait_for_job"
    /\ pc = "done"
    /\ max_retries = 2
    /\ max_attempts = 3
    /\ polls = 3
    /\ gets = 6
    /\ outcome.exc.kind = "TimeoutError"

\* the k-th poll task has issued a GET: it went round its loop or recorded an entry
HasPolled(k) == poll_attempts[k] > 0 \/ final_results[k] # NoEntry

\* C24: in process_batch, once any poll task has issued a GET, every upload task of
\* the batch has returned its entry (uploaded or error), one per image.
C24_UploadsBeforePolls ==
    (\E k \in 1..Len(final_results) : HasPolled(k)) =>
        /\ b_pc \in {"polling", "done"}
        /\ Len(upload_results) = Len(image_paths)
        /\ \A i \in 1..Len(upload_results) :
              upload_results[i].status \in {"uploaded", "error"}

\* C24 witness: in the poll phase of a batch of two, the second task has recorded
\* its entry while the first has polled once and is still running.
C24_Witness ==
    /\ b_pc = "polling"
    /\ Len(final_results) = 2
    /\ final_results[2] # NoEntry
    /\ final_results[1] = NoEntry
    /\ poll_attempts[1] = 1

\* the entries a poll task can return for the upload entry u: one for each answer
\* that ends its loop, and the timeout entry
PollEntries(u) ==
    {BatchEntry(u.job_id, u.image_path, "error", Absent, ErrorText(r)) :
        r \in ErrorResponses}
    \cup {BatchEntry(u.job_id, u.image_path, "completed", JobPayload(r.data), Absent) :
            r \in {x \in OkResponses("GET") : x.data.status = "succeeded"}}
    \cup {BatchEntry(u.job_id, u.image_path, "failed", Absent, JobError(r.data)) :
            r \in {x \in OkResponses("GET") : x.data.status = "failed"}}
    \cup {BatchEntry(u.job_id, u.image_path, "timeout", Absent, Absent)}

\* C25: a process_batch call that passed the key check never raises, whatever
\* fails for its images. In the poll phase a step belongs to one task: it records
\* that task's entry or advances that task's loop and leaves the entry and the
\* loop index of every other task as they were; an entry once recorded never
\* changes, is returned as recorded, and is made of the task's own job id and image
\* path and of one answer to its own request (or is its own timeout).
C25_JobsIndependent ==
    /\ []((b_pc = "done" /\ Truthy(B_API_KEY)) => b_outcome.kind = "return")
    /\ []((b_pc = "done" /\ successful_uploads # <<>>) =>
             b_outcome.value = final_results)
    /\ [][ (b_pc = "polling") =>
             /\ Len(final_results') = Len(final_results)
             /\ Cardinality({k \in 1..Len(final_results) :
                                \/ final_results'[k] # final_results[k]
                                \/ poll_attempts'[k] # poll_attempts[k]}) <= 1
             /\ \A k \in 1..Len(final_results) :
                   /\ final_results[k] # NoEntry => final_results'[k] = final_results[k]
                   /\ final_results'[k] # final_results[k] =>
                         final_results'[k] \in PollEntries(successful_uploads[k])
         ]_vars
    /\ [][ (b_pc = "uploading" /\ b_pc' = "uploading") =>
             /\ Cardinality({i \in 1..Len(upload_results) :
                                upload_results'[i] # upload_results[i]}) <= 1
             /\ \A i \in 1..Len(upload_results) :
                   /\ upload_results[i] # NoEntry => upload_results'[i] = upload_results[i]
                   /\ upload_results'[i].image_path \in {"-", image_paths[i]}
         ]_vars

\* C25 witness: a batch of two whose first job failed and whose second job was
\* completed with its manifest, both returned.
C25_Witness ==
    /\ b_pc = "done"
    /\ b_outcome.kind = "return"
    /\ Len(final_results) = 2
    /\ final_results[1].status = "failed"
    /\ final_results[1].image_path = "img1"
    /\ final_results[2].status = "completed"
    /\ final_results[2].image_path = "img2"
    /\ final_results[2].result = ManifestA
    /\ final_results[2].job_id # final_results[1].job_id

\* the current status GET of wait_for_job failed at least once with a retryable
\* error and was then answered
RecoveredPoll ==
    /\ caller = "wait"
    /\ \E i \in ReqIdx(log) : IsRetryableFailure(log[i].resp)
    /\ log[Len(log)].ev = "req"
    /\ log[Len(log)].resp.kind = "ok"

\* C26: a status poll of wait_for_job whose GET failed with retryable errors and
\* then succeeded within max_retries attempts counts as one poll, hands the
\* answered snapshot to the loop, and the loop goes on from it as from any poll:
\* it returns, raises the job failure, or sleeps once and polls again, and no
\* transport error reaches the caller. A transport error reaches the caller only
\* from the max_retries-th attempt or from a 4xx other than 429.
C26_RetriesContained ==
    /\ RecoveredPoll =>
          /\ NumReqs(log) <= max_retries
          /\ polls <= max_attempts
          /\ response = log[Len(log)].resp.data
          /\ pc \in {"polled", "poll", "done"}
          /\ pc = "polled" => /\ polls = poll_attempt + 1
                              /\ pollSleeps = poll_attempt
                              /\ outcome.kind = "none"
          /\ pc = "poll" => /\ polls = poll_attempt
                            /\ pollSleeps = poll_attempt
                            /\ response.status \notin {"completed", "succeeded", "failed"}
                            /\ outcome.kind = "none"
          /\ pc = "done" =>
                \/ outcome = Raise(CallbackError)
                \/ /\ response.status \in {"completed", "succeeded"}
                   /\ outcome = Return([type |-> "payload", v |-> JobPayload(response)])
                \/ /\ response.status = "failed"
                   /\ outcome.kind = "raise"
                   /\ outcome.exc.kind = "RuntimeError"
                \/ /\ response.status \notin {"completed", "succeeded", "failed"}
                   /\ outcome.kind = "raise"
                   /\ outcome.exc.kind = "TimeoutError"
                   /\ polls = max_attempts
    /\ ( /\ caller = "wait"
         /\ pc = "done"
         /\ outcome.exc.kind \in {"HTTPError", "Timeout", "ConnectionError"} )
       => /\ log[Len(log)].ev = "req"
          /\ \/ NumReqs(log) = max_retries
             \/ Is4xxNot429(log[Len(log)].resp)

\* C26 witness: the second poll of a wait_for_job call failed twice (503, timeout),
\* was answered on the third attempt, and the loop went on to sleep and poll again.
C26_Witness ==
    /\ op = "wait_for_job"
    /\ RecoveredPoll
    /\ NumReqs(log) = 3
    /\ log[1].resp.code = 503
    /\ log[3].resp.kind = "timeout"
    /\ pc = "poll"
    /\ polls = 2
    /\ max_attempts = 3

\* C27 (as claimed): every upload attempt of a process_image call, the first and
\* each retry, sends the whole content of the image file.
C27_RetryCarriesWholeImage ==
    (op = "process_image" /\ caller = "submit") =>
        \A i \in ReqIdx(log) : log[i].body = ImageBytes

\* C28 (as claimed): upload_with_retry makes at most max_retries upload POSTs, each
\* attempt that ends in a 429, a 5xx, a timeout or a connection error using up one
\* of them, and when it fails for an API reason (all attempts failed, a client
\* error, an HTTP error while polling) it raises ImgGoError or a subclass of it.
C28_UploadFailsWithImgGoError ==
    op = "upload_with_retry" =>
        /\ uw_posts <= uw_max_retries
        /\ uw_posts \in {uw_attempt, uw_attempt + 1}
        /\ (pc = "done" /\ outcome.kind = "raise" /\ HasModuleKey(EH_API_KEY)) =>
               outcome.exc.kind \in {"ImgGoError", "JobFailedError"}

\* C29: one upload_with_retry call creates at most one job: after the POST that
\* was answered with success no further POST is made by the call, whatever the
\* polling that follows runs into (job failure, poll timeout, transport errors,
\* HTTP errors).
C29_AtMostOneJob ==
    /\ [](op = "upload_with_retry" =>
             /\ uw_jobs <= 1
             /\ uw_jobs = 1 => /\ pc \in {"pw_loop", "done"}
                               /\ uw_posts = uw_attempt + 1
                               /\ pw_job \in JobIds)
    /\ [][(op = "upload_with_retry" /\ uw_jobs = 1) =>
             /\ uw_posts' = uw_posts
             /\ uw_jobs' = uw_jobs
             /\ uw_attempt' = uw_attempt]_vars

\* C29 witness: the second POST of an upload_with_retry call created the job, its
\* status GET was answered with a 503, and the call ended with two POSTs made.
C29_Witness ==
    /\ op = "upload_with_retry"
    /\ pc = "done"
    /\ uw_jobs = 1
    /\ uw_posts = 2
    /\ uw_max_retries = 3
    /\ pw_gets = 1
    /\ pw_last.kind = "http"
    /\ pw_last.code = 503
    /\ outcome.kind = "raise"

\* the last status answer of poll_with_retry shows the job in a terminal state that
\* is a failure: failed, or succeeded with an empty payload
ObservedJobFailure ==
    /\ pw_last.kind = "ok"
    /\ \/ IsFailed(pw_last.data.status)
       \/ IsSucceeded(pw_last.data.status) /\ ~Truthy(JobPayload(pw_last.data))

\* C30: poll_with_retry ends after at most max_attempts status GETs; a 404, a
\* request timeout and a connection error each use up one polling attempt;
\* JobFailedError is raised only for a job seen failed, or succeeded with an empty
\* payload; when the attempts run out with no terminal state seen it raises an
\* ImgGoError that is not a JobFailedError.
C30_PollWithRetryBounded ==
    /\ [](pw_job # NoJob =>
             /\ pw_gets <= pw_max_attempts
             /\ pw_attempt <= pw_max_attempts
             /\ pw_gets \in {pw_attempt, pw_attempt + 1}
             /\ (pc = "pw_loop" /\ pw_gets > 0) =>
                    /\ pw_gets = pw_attempt
                    /\ pw_sleep > 0
                    /\ ~ObservedJobFailure
             /\ (pc = "done" /\ outcome.kind = "raise"
                   /\ outcome.exc.kind = "JobFailedError") => ObservedJobFailure
             /\ (pc = "done" /\ pw_gets = pw_attempt) =>
                    /\ pw_attempt = pw_max_attempts
                    /\ outcome = Raise(ImgGoError("Job timeout"))
                    /\ outcome.exc.kind = "ImgGoError"
                    /\ ~ObservedJobFailure)
    /\ (pc = "pw_loop") ~> (pc = "done" /\ outcome.kind \in {"return", "raise"})

\* C30 witness: a poll_with_retry call with three attempts saw a 404, a timeout
\* and a connection error, in some order, and ended with the timeout ImgGoError.
C30_Witness ==
    /\ op = "poll_with_retry"
    /\ pc = "done"
    /\ pw_max_attempts = 3
    /\ pw_gets = 3
    /\ pw_last.kind = "conn"
    /\ pw_sleep = 2 * TicksPerSecond
    /\ outcome = Raise(ImgGoError("Job timeout"))

====
